---- MODULE Spec2Model ----
(***************************************************************************)
(* Aho-Corasick automaton of src/Aho-Corasick.h: trie construction         *)
(* (insert), the breadth-first failure/output linking pass                 *)
(* (fillFailureLinks / connectFailureLink) and the scanner (findPatterns). *)
(*                                                                         *)
(* Nodes live in an arena: a node is its index in the sequence `nodes`,    *)
(* in order of allocation (`new Node{}`); nullptr is Null.  A string is a  *)
(* sequence of one-character strings.                                      *)
(***************************************************************************)
EXTENDS Integers, Sequences, FiniteSets, TLC

VARIABLES words, text, nodes, pc, wi, q, scan, cq, freed

vars == <<words, text, nodes, pc, wi, q, scan, cq, freed>>

\* ---------------------------------------------------------------- bounds
Alphabet == {"a", "b"}
MaxPatLen == 3
MaxWords == 3
MaxTextLen == 3
NumScanners == 2

SeqsUpTo(S, n) == UNION {[1..k -> S] : k \in 0..n}
Patterns == SeqsUpTo(Alphabet, MaxPatLen)
Scanners == 1..NumScanners

\* ----------------------------------------------------------------- nodes
Null == 0
Root == 1

NoChildren == [c \in {} |-> Null]

\* struct Node with its default member initialisers
NewNode ==
  [children |-> NoChildren, parent |-> Null, failureLink |-> Null,
   outputLink |-> Null, isWord |-> FALSE, parentChar |-> "*",
   pattern |-> << >>]

\* std::unordered_map::contains on node->children
Contains(ns, node, c) == c \in DOMAIN ns[node].children

\* the map with key c bound to v (assignment through operator[])
Put(m, c, v) == [x \in (DOMAIN m) \cup {c} |-> IF x = c THEN v ELSE m[x]]

\* std::unordered_map::operator[] on node->children: a lookup of an absent
\* key inserts it, bound to a value-initialised (null) pointer
ChildrenAt(ns, node, c) ==
  IF Contains(ns, node, c) THEN ns
  ELSE [ns EXCEPT ![node].children = Put(@, c, Null)]

\* ---------------------------------------------------------------- insert
RECURSIVE InsertWalkAlwaysNew(_, _, _, _)
\* the for loop of insert without the contains test: a node is allocated
\* for every symbol, present or not
InsertWalkAlwaysNew(ns, node, s, k) ==
  IF k > Len(s) THEN [nodes |-> ns, node |-> node]
  ELSE LET c   == s[k]
           ns1 == Append([ns EXCEPT ![node].children = Put(@, c, Len(ns) + 1)],
                         NewNode)
           ch  == ns1[node].children[c]
           ns3 == [ns1 EXCEPT ![ch].parent = node, ![ch].parentChar = c]
       IN InsertWalkAlwaysNew(ns3, ch, s, k + 1)

RECURSIVE InsertWalkParentRoot(_, _, _, _)
\* the loop of insert with `parent = root` in place of `parent = node`
InsertWalkParentRoot(ns, node, s, k) ==
  IF k > Len(s) THEN [nodes |-> ns, node |-> node]
  ELSE LET c   == s[k]
           ns1 == IF ~Contains(ns, node, c)
                  THEN Append([ns EXCEPT ![node].children = Put(@, c, Len(ns) + 1)],
                              NewNode)
                  ELSE ns
           ch  == ns1[node].children[c]
           ns3 == [ns1 EXCEPT ![ch].parent = Root, ![ch].parentChar = c]
       IN InsertWalkParentRoot(ns3, ch, s, k + 1)

RECURSIVE InsertWalk(_, _, _, _)
\* the for loop of insert: from `node`, over s[k..]
InsertWalk(ns, node, s, k) ==
  IF k > Len(s) THEN [nodes |-> ns, node |-> node]
  ELSE LET c   == s[k]
           ns1 == IF ~Contains(ns, node, c)
                  THEN Append([ns EXCEPT ![node].children = Put(@, c, Len(ns) + 1)],
                              NewNode)
                  ELSE ns
           ns2 == ChildrenAt(ns1, node, c)
           ch  == ns2[node].children[c]
           ns3 == [ns2 EXCEPT ![ch].parent = node, ![ch].parentChar = c]
       IN InsertWalk(ns3, ch, s, k + 1)

\* insert that marks the end of a pattern only on a leaf
insertLeafOnly(ns, s) ==
  LET r == InsertWalk(ns, Root, s, 1)
  IN IF DOMAIN r.nodes[r.node].children = {}
     THEN [r.nodes EXCEPT ![r.node].isWord = TRUE, ![r.node].pattern = s]
     ELSE r.nodes

\* insert that flips the mark of the end node instead of setting it
insertToggle(ns, s) ==
  LET r == InsertWalk(ns, Root, s, 1)
  IN [r.nodes EXCEPT ![r.node].isWord = ~@, ![r.node].pattern = s]

insert(ns, s) ==
  LET r == InsertWalk(ns, Root, s, 1)
  IN [r.nodes EXCEPT ![r.node].isWord = TRUE, ![r.node].pattern = s]

RECURSIVE buildTrieTree(_, _, _)
\* the for loop of buildTrieTree over ws[k..]
buildTrieTree(ns, ws, k) ==
  IF k > Len(ws) THEN ns ELSE buildTrieTree(insert(ns, ws[k]), ws, k + 1)

\* ---------------------------------------------------- connectFailureLink
\* a walk that looks only at the first node of the failure chain
FailureWalkOneStep(ns, f, c) ==
  IF f # Null /\ Contains(ns, f, c) THEN f ELSE Null

RECURSIVE FailureWalk(_, _, _)
\* the while loop of connectFailureLink: the first node on the failure
\* chain from f that has a child for c, or Null when the chain runs out
FailureWalk(ns, f, c) ==
  IF f = Null THEN Null
  ELSE IF Contains(ns, f, c) THEN f
  ELSE FailureWalk(ns, ns[f].failureLink, c)

\* connectFailureLink without the default of line 148: a node whose walk
\* finds no suffix keeps a null failure link
connectFailureLinkNoDefault(ns, node) ==
  IF ns[node].parent = Null \/ ns[node].parent = Root THEN ns
  ELSE LET c == ns[node].parentChar
           f == FailureWalk(ns, ns[ns[node].parent].failureLink, c)
       IN IF f = Null THEN ns
          ELSE LET t   == ns[f].children[c]
                   ns3 == [ns EXCEPT ![node].failureLink = t]
               IN [ns3 EXCEPT ![node].outputLink =
                     IF ns3[t].isWord THEN t ELSE ns3[t].outputLink]

\* connectFailureLink that takes the failure target as output link when it
\* is a word and otherwise inherits nothing from it
connectFailureLinkNoInherit(ns, node) ==
  IF ns[node].parent = Null THEN ns
  ELSE LET ns1 == [ns EXCEPT ![node].failureLink = Root]
       IN IF ns1[node].parent = Root THEN ns1
          ELSE LET c == ns1[node].parentChar
                   f == FailureWalk(ns1, ns1[ns1[node].parent].failureLink, c)
               IN IF f = Null THEN ns1
                  ELSE LET t   == ns1[f].children[c]
                           ns3 == [ns1 EXCEPT ![node].failureLink = t]
                       IN IF ns3[t].isWord
                          THEN [ns3 EXCEPT ![node].outputLink = t]
                          ELSE ns3

\* connectFailureLink whose walk starts at the parent of the node instead
\* of the failure link of the parent
connectFailureLinkFromParent(ns, node) ==
  IF ns[node].parent = Null THEN ns
  ELSE LET ns1 == [ns EXCEPT ![node].failureLink = Root]
       IN IF ns1[node].parent = Root THEN ns1
          ELSE LET c == ns1[node].parentChar
                   f == FailureWalk(ns1, ns1[node].parent, c)
               IN IF f = Null THEN ns1
                  ELSE LET t   == ns1[f].children[c]
                           ns3 == [ns1 EXCEPT ![node].failureLink = t]
                       IN [ns3 EXCEPT ![node].outputLink =
                             IF ns3[t].isWord THEN t ELSE ns3[t].outputLink]

\* connectFailureLink that gives the default link of line 148 before the
\* test of line 146, so that the root points to itself; its walk ends at
\* the root
connectFailureLinkRootLoop(ns, node) ==
  LET ns1 == [ns EXCEPT ![node].failureLink = Root]
  IN IF ns1[node].parent = Null \/ ns1[node].parent = Root THEN ns1
     ELSE LET c  == ns1[node].parentChar
              up == [ns1 EXCEPT ![Root].failureLink = Null]
              f  == FailureWalk(up, up[up[node].parent].failureLink, c)
          IN IF f = Null THEN ns1
             ELSE LET t   == ns1[f].children[c]
                      ns3 == [ns1 EXCEPT ![node].failureLink = t]
                  IN [ns3 EXCEPT ![node].outputLink =
                        IF ns3[t].isWord THEN t ELSE ns3[t].outputLink]

\* connectFailureLink that first looks the symbol up with operator[] in
\* the node the walk starts at
connectFailureLinkProbing(ns, node) ==
  IF ns[node].parent = Null THEN ns
  ELSE LET ns1 == [ns EXCEPT ![node].failureLink = Root]
       IN IF ns1[node].parent = Root THEN ns1
          ELSE LET c   == ns1[node].parentChar
                   st  == ns1[ns1[node].parent].failureLink
                   f   == FailureWalk(ns1, st, c)
                   ns2 == IF st = Null THEN ns1 ELSE ChildrenAt(ns1, st, c)
               IN IF f = Null THEN ns2
                  ELSE LET t   == ns2[f].children[c]
                           ns3 == [ns2 EXCEPT ![node].failureLink = t]
                       IN [ns3 EXCEPT ![node].outputLink =
                             IF ns3[t].isWord THEN t ELSE ns3[t].outputLink]

\* connectFailureLink whose walk resumes at the failure link the node
\* already has, when it has one
connectFailureLinkResume(ns, node) ==
  IF ns[node].parent = Null THEN ns
  ELSE LET ns1 == [ns EXCEPT ![node].failureLink = Root]
       IN IF ns1[node].parent = Root THEN ns1
          ELSE LET c  == ns1[node].parentChar
                   st == IF ns[node].failureLink # Null THEN ns[node].failureLink
                         ELSE ns1[ns1[node].parent].failureLink
                   f  == FailureWalk(ns1, st, c)
               IN IF f = Null THEN ns1
                  ELSE LET t   == ns1[f].children[c]
                           ns3 == [ns1 EXCEPT ![node].failureLink = t]
                       IN [ns3 EXCEPT ![node].outputLink =
                             IF ns3[t].isWord THEN t ELSE ns3[t].outputLink]

connectFailureLink(ns, node) ==
  IF ns[node].parent = Null THEN ns
  ELSE LET ns1 == [ns EXCEPT ![node].failureLink = Root]
       IN IF ns1[node].parent = Root THEN ns1
          ELSE LET c == ns1[node].parentChar
                   f == FailureWalk(ns1, ns1[ns1[node].parent].failureLink, c)
               IN IF f = Null THEN ns1
                  ELSE LET ns2 == ChildrenAt(ns1, f, c)
                           t   == ns2[f].children[c]
                           ns3 == [ns2 EXCEPT ![node].failureLink = t]
                       IN [ns3 EXCEPT ![node].outputLink =
                             IF ns3[t].isWord THEN t ELSE ns3[t].outputLink]

\* the child pointers of a node, the values the range-for over
\* node->children visits
ChildNodes(ns, node) == {ns[node].children[c] : c \in DOMAIN ns[node].children}

\* the orders in which an unordered_map may be iterated
Orders(S) == {o \in [1..Cardinality(S) -> S] : \A i, j \in DOMAIN o : o[i] = o[j] => i = j}

\* a traversal that puts the children in front of the pending nodes (a
\* stack in place of the queue)
EnqueueFront(qq, o) == o \o qq

\* a traversal that puts the children right behind the next pending node
EnqueueBehindHead(qq, o) ==
  IF qq = << >> THEN o ELSE <<Head(qq)>> \o o \o Tail(qq)

\* for (auto [c, nextNode] : node->children) q.push(nextNode), the children
\* visited in the order o
Enqueue(qq, o) == qq \o o

SomeOrder(S) == CHOOSE o \in Orders(S) : TRUE

RECURSIVE LinkPass(_, _)
\* the loop of fillFailureLinks run to the end from queue qq, the children
\* of each node visited in one fixed order
LinkPass(ns, qq) ==
  IF qq = << >> THEN ns
  ELSE LinkPass(connectFailureLink(ns, Head(qq)),
                Enqueue(Tail(qq), SomeOrder(ChildNodes(ns, Head(qq)))))

fillFailureLinks(ns) == LinkPass(ns, <<Root>>)

\* the constructor: root = new Node{}; buildTrieTree(); fillFailureLinks();
Construct(ws) == fillFailureLinks(buildTrieTree(<<NewNode>>, ws, 1))

\* ---------------------------------------------------------- findPatterns
Match(p, i) == [pattern |-> p, endIndex |-> i]

\* a scanner that restarts at the root on a mismatch instead of following
\* the failure links
FollowFailureToRoot(ns, node, c) ==
  IF ns[node].failureLink # Null /\ ~Contains(ns, node, c) THEN Root ELSE node

\* a scanner that follows at most one failure link on a mismatch
FollowFailureOnce(ns, node, c) ==
  IF ns[node].failureLink # Null /\ ~Contains(ns, node, c)
  THEN ns[node].failureLink
  ELSE node

RECURSIVE FollowFailureAboveRoot(_, _, _)
\* a walk that never steps onto the root
FollowFailureAboveRoot(ns, node, c) ==
  IF ns[node].failureLink \notin {Null, Root} /\ ~Contains(ns, node, c)
  THEN FollowFailureAboveRoot(ns, ns[node].failureLink, c)
  ELSE node

RECURSIVE FollowFailure(_, _, _)
\* while (node->failureLink && !node->children.contains(c)) node = node->failureLink
FollowFailure(ns, node, c) ==
  IF ns[node].failureLink # Null /\ ~Contains(ns, node, c)
  THEN FollowFailure(ns, ns[node].failureLink, c)
  ELSE node

RECURSIVE FailureSteps(_, _, _)
\* how often the body of the while loop of lines 213-215 runs from node on c
FailureSteps(ns, node, c) ==
  IF ns[node].failureLink # Null /\ ~Contains(ns, node, c)
  THEN 1 + FailureSteps(ns, ns[node].failureLink, c)
  ELSE 0

\* the transition without the test of line 217: after the failure links
\* the child for c is taken whether it is there or not
AdvanceUnguarded(ns, node, c) ==
  IF Contains(ns, node, c)
  THEN [nodes |-> ns, node |-> ns[node].children[c], skip |-> FALSE]
  ELSE LET n1  == FollowFailure(ns, node, c)
           ns1 == ChildrenAt(ns, n1, c)
       IN [nodes |-> ns1, node |-> ns1[n1].children[c], skip |-> FALSE]

\* the transition with the first test written `if (node->children[c])`:
\* the lookup of an absent symbol inserts a null entry for it
AdvanceProbing(ns, node, c) ==
  LET ns0 == ChildrenAt(ns, node, c)
  IN IF ns0[node].children[c] # Null
     THEN [nodes |-> ns0, node |-> ns0[node].children[c], skip |-> FALSE]
     ELSE LET n1 == FollowFailure(ns, node, c)
          IN IF ~Contains(ns, n1, c)
             THEN [nodes |-> ns0, node |-> n1, skip |-> TRUE]
             ELSE [nodes |-> ns0, node |-> ns[n1].children[c], skip |-> FALSE]

\* lines 208-224: the node after consuming c; skip is the `continue`
Advance(ns, node, c) ==
  IF Contains(ns, node, c)
  THEN LET ns1 == ChildrenAt(ns, node, c)
       IN [nodes |-> ns1, node |-> ns1[node].children[c], skip |-> FALSE]
  ELSE LET n1 == FollowFailure(ns, node, c)
       IN IF ~Contains(ns, n1, c)
          THEN [nodes |-> ns, node |-> n1, skip |-> TRUE]
          ELSE LET ns1 == ChildrenAt(ns, n1, c)
               IN [nodes |-> ns1, node |-> ns1[n1].children[c], skip |-> FALSE]

RECURSIVE OutputChain(_, _, _)
\* while (curr->outputLink) { report curr->outputLink->pattern; curr = curr->outputLink; }
OutputChain(ns, curr, i) ==
  IF ns[curr].outputLink = Null THEN << >>
  ELSE <<Match(ns[ns[curr].outputLink].pattern, i)>>
         \o OutputChain(ns, ns[curr].outputLink, i)

\* reporting that walks the output links before it looks at the node itself
ReportChainFirst(ns, node, i) ==
  OutputChain(ns, node, i)
    \o (IF ns[node].isWord THEN <<Match(ns[node].pattern, i)>> ELSE << >>)

\* reporting whose output walk begins with the node itself
ReportSelfInChain(ns, node, i) ==
  (IF ns[node].isWord
   THEN <<Match(ns[node].pattern, i), Match(ns[node].pattern, i)>>
   ELSE << >>)
    \o OutputChain(ns, node, i)

\* reporting that does not walk the output links
ReportOwnOnly(ns, node, i) ==
  IF ns[node].isWord THEN <<Match(ns[node].pattern, i)>> ELSE << >>

\* lines 226-249: what one loop iteration reports at node for text index i
Report(ns, node, i) ==
  (IF ns[node].isWord THEN <<Match(ns[node].pattern, i)>> ELSE << >>)
    \o OutputChain(ns, node, i)

\* a loop body that reports a word once only: it clears isWord of the node
\* it has just reported
ScanIterationConsume(ns, st, t) ==
  LET a == Advance(ns, st.node, t[st.i + 1])
      hit == ~a.skip /\ a.node \in DOMAIN a.nodes
  IN [nodes |-> IF hit THEN [a.nodes EXCEPT ![a.node].isWord = FALSE] ELSE a.nodes,
      st    |-> [node |-> a.node,
                 i    |-> st.i + 1,
                 out  |-> IF hit THEN st.out \o Report(a.nodes, a.node, st.i)
                          ELSE st.out]]

\* an iteration that leaves i alone when line 218 continues
ScanIterationStuck(ns, st, t) ==
  LET a == Advance(ns, st.node, t[st.i + 1])
  IN [nodes |-> a.nodes,
      st    |-> [node |-> a.node,
                 i    |-> IF a.skip THEN st.i ELSE st.i + 1,
                 out  |-> IF a.skip \/ a.node \notin DOMAIN a.nodes THEN st.out
                          ELSE st.out \o Report(a.nodes, a.node, st.i)]]

\* one iteration of the for loop of findPatterns, for a scanner whose
\* locals are st = [node, i, out], on symbol t[st.i + 1]; nothing is
\* reported through a null `node`
ScanIteration(ns, st, t) ==
  LET a == Advance(ns, st.node, t[st.i + 1])
  IN [nodes |-> a.nodes,
      st    |-> [node |-> a.node,
                 i    |-> st.i + 1,
                 out  |-> IF a.skip \/ a.node \notin DOMAIN a.nodes THEN st.out
                          ELSE st.out \o Report(a.nodes, a.node, st.i)]]

\* a scanner that reports the node it starts on before it reads a symbol
ScanEntryReportsRoot == [node |-> Root, i |-> 0, out |-> <<Match(<< >>, -1)>>]

\* the locals of findPatterns on entry: Node* node{ root }; int i{};
ScanEntry == [node |-> Root, i |-> 0, out |-> << >>]

RECURSIVE ScanFrom(_, _, _, _)
\* the for loop of findPatterns run alone from st up to text index n
ScanFrom(ns, st, t, n) ==
  IF st.i >= n \/ st.node \notin DOMAIN ns THEN [nodes |-> ns, st |-> st]
  ELSE LET r == ScanIteration(ns, st, t) IN ScanFrom(r.nodes, r.st, t, n)

\* findPatterns run alone on the whole text: what it reports, in order
findPatterns(ns, t) == ScanFrom(ns, ScanEntry, t, Len(t)).st.out

\* ----------------------------------------------------------------- clear
\* line 290: node->failureLink = node->outputLink = node->parent = nullptr
unlink(ns, node) ==
  [ns EXCEPT ![node].failureLink = Null, ![node].outputLink = Null,
             ![node].parent = Null]

\* a pass that deletes the node without pushing its children
clearIterationNoPush(ns, qq, fr, o) ==
  [nodes |-> unlink(ns, Head(qq)), cq |-> Tail(qq), freed |-> fr \cup {Head(qq)}]

\* lines 283-291: one pass of the loop of clear on queue qq with fr freed:
\* pop the front, push its children in the order o, clear its links,
\* delete it
clearIteration(ns, qq, fr, o) ==
  [nodes |-> unlink(ns, Head(qq)),
   cq    |-> Enqueue(Tail(qq), o),
   freed |-> fr \cup {Head(qq)}]

\* ------------------------------------------------------------ the system
Idle == [state |-> "idle", node |-> Null, i |-> 0, out |-> << >>]

\* after `root = new Node{}` in the constructor, no thread scanning yet
Constructing(threads) ==
  /\ nodes = <<NewNode>>
  /\ pc = "build"
  /\ wi = 1
  /\ q = << >>
  /\ scan = [s \in threads |-> Idle]
  /\ cq = << >>
  /\ freed = {}

\* every dictionary and text within the bounds, one caller of findPatterns
Init ==
  /\ words \in SeqsUpTo(Patterns, MaxWords)
  /\ text \in SeqsUpTo(Alphabet, MaxTextLen)
  /\ Constructing({1})

\* NumScanners threads call findPatterns on one automaton
InitConcurrent ==
  /\ words \in SeqsUpTo(Patterns, MaxWords - 1)
  /\ text \in SeqsUpTo(Alphabet, MaxTextLen)
  /\ Constructing(Scanners)

\* the overlap scenario: he, she, his, hers against "ahishers"
InitOverlap ==
  /\ words = << <<"h", "e">>, <<"s", "h", "e">>, <<"h", "i", "s">>,
                <<"h", "e", "r", "s">> >>
  /\ text = <<"a", "h", "i", "s", "h", "e", "r", "s">>
  /\ Constructing(Scanners)

\* buildTrieTree: one pass of its loop, insert(words[wi])
Insert ==
  /\ pc = "build"
  /\ wi <= Len(words)
  /\ nodes' = insert(nodes, words[wi])
  /\ wi' = wi + 1
  /\ UNCHANGED <<words, text, pc, q, scan, cq, freed>>

\* fillFailureLinks: q.push(root)
LinkStart ==
  /\ pc = "build"
  /\ wi > Len(words)
  /\ pc' = "link"
  /\ q' = <<Root>>
  /\ UNCHANGED <<words, text, nodes, wi, scan, cq, freed>>

\* fillFailureLinks: one pass of the inner loop; the constructor returns
\* when the queue runs empty
LinkStep ==
  /\ pc = "link"
  /\ q # << >>
  /\ LET node == Head(q)
     IN /\ nodes' = connectFailureLink(nodes, node)
        /\ \E o \in Orders(ChildNodes(nodes, node)) :
             /\ q' = Enqueue(Tail(q), o)
             /\ pc' = IF q' = << >> THEN "ready" ELSE "link"
  /\ UNCHANGED <<words, text, wi, scan, cq, freed>>

\* a thread enters findPatterns
ScanStart(s) ==
  /\ pc = "ready"
  /\ scan[s].state = "idle"
  /\ scan' = [scan EXCEPT ![s] = [state |-> IF Len(text) = 0 THEN "done" ELSE "scan",
                                  node |-> ScanEntry.node, i |-> ScanEntry.i,
                                  out |-> ScanEntry.out]]
  /\ UNCHANGED <<words, text, nodes, pc, wi, q, cq, freed>>

\* one iteration of the loop of findPatterns; line 229 dereferences `node`,
\* so a null `node` ends the scan in an error
ScanStep(s) ==
  /\ pc = "ready"
  /\ scan[s].state = "scan"
  /\ LET r == ScanIteration(nodes, [node |-> scan[s].node, i |-> scan[s].i,
                                    out |-> scan[s].out], text)
     IN /\ nodes' = r.nodes
        /\ scan' = [scan EXCEPT ![s] =
                      [state |-> IF r.st.node \notin DOMAIN r.nodes THEN "error"
                                 ELSE IF r.st.i = Len(text) THEN "done"
                                 ELSE "scan",
                       node |-> r.st.node, i |-> r.st.i, out |-> r.st.out]]
  /\ UNCHANGED <<words, text, pc, wi, q, cq, freed>>

\* ~Aho_Corasick, once every caller of findPatterns has returned: clear()
\* is entered, q.push(root)
ClearStart ==
  /\ pc = "ready"
  /\ \A s \in DOMAIN scan : scan[s].state = "done"
  /\ pc' = "clear"
  /\ cq' = <<Root>>
  /\ UNCHANGED <<words, text, nodes, wi, q, scan, freed>>

\* clear: one pass of its loop; popping a node that is already freed reads
\* freed memory and deletes it again, which ends the run in a crash
ClearStep ==
  /\ pc = "clear"
  /\ cq # << >>
  /\ LET node == Head(cq)
     IN IF node \in freed
        THEN /\ pc' = "crash"
             /\ UNCHANGED <<nodes, cq, freed>>
        ELSE \E o \in Orders(ChildNodes(nodes, node)) :
               LET r == clearIteration(nodes, cq, freed, o)
               IN /\ nodes' = r.nodes
                  /\ freed' = r.freed
                  /\ cq' = r.cq
                  /\ pc' = IF r.cq = << >> THEN "gone" ELSE "clear"
  /\ UNCHANGED <<words, text, wi, q, scan>>

Next ==
  \/ Insert
  \/ LinkStart
  \/ LinkStep
  \/ \E s \in DOMAIN scan : ScanStart(s)
  \/ \E s \in DOMAIN scan : ScanStep(s)
  \/ ClearStart
  \/ ClearStep

Spec == Init /\ [][Next]_vars

SpecConcurrent == InitConcurrent /\ [][Next]_vars

SpecOverlap == InitOverlap /\ [][Next]_vars

\* every dictionary of fewer than MaxWords words shorter than MaxPatLen,
\* one caller
InitLive ==
  /\ words \in SeqsUpTo(SeqsUpTo(Alphabet, MaxPatLen - 1), MaxWords - 1)
  /\ text \in SeqsUpTo(Alphabet, MaxTextLen)
  /\ Constructing({1})

\* the constructor runs to its end once entered, and a thread inside
\* findPatterns keeps running; nothing obliges a caller to start a scan or
\* to destroy the automaton
SpecLive ==
  /\ InitLive
  /\ [][Next]_vars
  /\ WF_vars(Insert)
  /\ WF_vars(LinkStart)
  /\ WF_vars(LinkStep)
  /\ WF_vars(ScanStep(1))

\* ---- fillFailureLinks called once more on the constructed automaton
\* every dictionary within the bounds; no text is scanned
InitRelink ==
  /\ words \in SeqsUpTo(Patterns, MaxWords)
  /\ text = << >>
  /\ Constructing({1})

\* fillFailureLinks entered again: q.push(root)
RelinkStart ==
  /\ pc = "ready"
  /\ pc' = "relink"
  /\ q' = <<Root>>
  /\ UNCHANGED <<words, text, nodes, wi, scan, cq, freed>>

\* one pass of the inner loop of the second fillFailureLinks
RelinkStep ==
  /\ pc = "relink"
  /\ q # << >>
  /\ LET node == Head(q)
     IN /\ nodes' = connectFailureLink(nodes, node)
        /\ \E o \in Orders(ChildNodes(nodes, node)) :
             /\ q' = Enqueue(Tail(q), o)
             /\ pc' = IF q' = << >> THEN "relinked" ELSE "relink"
  /\ UNCHANGED <<words, text, wi, scan, cq, freed>>

NextRelink ==
  \/ Insert
  \/ LinkStart
  \/ LinkStep
  \/ RelinkStart
  \/ RelinkStep

SpecRelink == InitRelink /\ [][NextRelink]_vars

\* ------------------------------------------------------------ properties
Range(f) == {f[x] : x \in DOMAIN f}

NonEmptyPatterns == \A k \in DOMAIN words : words[k] # << >>

\* the (pattern, startIndex) pairs of a match sequence,
\* startIndex = endIndex - length(pattern) + 1
Starts(out) == {<<m.pattern, m.endIndex - Len(m.pattern) + 1>> : m \in Range(out)}

\* p occurs in t at the 0-based index st
OccursAt(p, t, st) ==
  /\ st + Len(p) <= Len(t)
  /\ \A j \in 1..Len(p) : t[st + j] = p[j]

\* every position checked against every pattern
Naive(ws, t) ==
  {<<ws[k], st>> : k \in DOMAIN ws, st \in 0..(Len(t) - 1)}
    \cap {x \in Range(ws) \X (0..(Len(t) - 1)) : OccursAt(x[1], t, x[2])}

\* C1: for a dictionary of non-empty patterns, the (pattern, startIndex)
\* pairs a finished scan has reported are exactly the pairs found by
\* checking every position of the text against every pattern.
C1_EquivalentToBruteForce ==
  \A s \in DOMAIN scan :
    (NonEmptyPatterns /\ scan[s].state = "done") =>
      Starts(scan[s].out) = Naive(words, text)

\* a finished scan that reported a pattern through an output link inherited
\* from a failure target that is no word, next to the node's own pattern
C1_Witness ==
  /\ NonEmptyPatterns
  /\ scan[1].state = "done"
  /\ Cardinality(Naive(words, text)) >= 3
  /\ \E n \in DOMAIN nodes :
       /\ nodes[n].outputLink # Null
       /\ nodes[n].failureLink # nodes[n].outputLink
       /\ scan[1].node = n

\* the (pattern, startIndex, endIndex) triples of a match sequence
Triples(out) ==
  {<<m.pattern, m.endIndex - Len(m.pattern) + 1, m.endIndex>> : m \in Range(out)}

OverlapExpected ==
  { << <<"h", "i", "s">>, 1, 3 >>,
    << <<"s", "h", "e">>, 3, 5 >>,
    << <<"h", "e">>, 4, 5 >>,
    << <<"h", "e", "r", "s">>, 4, 7 >> }

\* C2: he, she, his, hers scanned against "ahishers" reports his at 1..3,
\* she at 3..5, he at 4..5 and hers at 4..7, each once, and nothing else.
C2_OverlapScenario ==
  \A s \in DOMAIN scan :
    scan[s].state = "done" =>
      /\ Triples(scan[s].out) = OverlapExpected
      /\ Len(scan[s].out) = 4

\* the scan of "ahishers" has finished, the last match reported being hers
C2_Witness ==
  /\ scan[1].state = "done"
  /\ scan[1].i = 8
  /\ scan[1].out # << >>
  /\ scan[1].out[Len(scan[1].out)].pattern = <<"h", "e", "r", "s">>

\* C3: a pattern list that holds an empty string is rejected: construction
\* does not go past the empty pattern, and the root is never marked a word.
C3_EmptyPatternRejected ==
  /\ ~nodes[Root].isWord
  /\ \A k \in DOMAIN words : words[k] = << >> => wi <= k

\* ---- the automaton up to the addresses of its nodes
RECURSIVE Path(_, _)
\* the string a node stands for: the parentChar labels from the root down
Path(ns, n) ==
  IF ns[n].parent = Null THEN << >>
  ELSE Append(Path(ns, ns[n].parent), ns[n].parentChar)

PathOf(ns, n) == IF n = Null THEN <<"nullptr">> ELSE Path(ns, n)

NodeView(ns, n) ==
  [path       |-> Path(ns, n),
   children   |-> [c \in DOMAIN ns[n].children |-> PathOf(ns, ns[n].children[c])],
   failure    |-> PathOf(ns, ns[n].failureLink),
   output     |-> PathOf(ns, ns[n].outputLink),
   isWord     |-> ns[n].isWord,
   pattern    |-> ns[n].pattern]

Canon(ns) == {NodeView(ns, n) : n \in DOMAIN ns}

\* what two automata are compared by: the number of nodes, and node for
\* node the strings, marks and links; and the match sequence on text t
View(ns, t) == [size |-> Len(ns), canon |-> Canon(ns), matches |-> findPatterns(ns, t)]

Constructed == pc = "ready" /\ \A s \in DOMAIN scan : scan[s].state = "idle"

\* ws with ws[k] inserted once more, after the first j patterns
Repeated(ws, k, j) == SubSeq(ws, 1, j) \o <<ws[k]>> \o SubSeq(ws, j + 1, Len(ws))

\* C4: a pattern list with one of its patterns repeated, anywhere in the
\* list, builds the same nodes, word marks, failure and output links as the
\* list itself and reports the same match sequence.
C4_DuplicateIdempotent ==
  Constructed =>
    {View(Construct(Repeated(words, k, j)), text) :
       k \in DOMAIN words, j \in 0..Len(words)} \subseteq {View(nodes, text)}

\* an automaton built from a list that repeats a pattern, two nodes deep,
\* whose scan reports the repeated pattern
C4_Witness ==
  /\ Constructed
  /\ \E i, j \in DOMAIN words : i < j /\ words[i] = words[j] /\ Len(words[i]) >= 2
  /\ Len(nodes) >= 4
  /\ findPatterns(nodes, text) # << >>

Permuted(ws, o) == [k \in DOMAIN ws |-> ws[o[k]]]

\* C5: every permutation of the pattern list builds the same trie, word
\* marks, failure and output links, and reports the same match sequence.
C5_OrderIndependent ==
  Constructed =>
    {View(Construct(Permuted(words, o)), text) : o \in Orders(DOMAIN words)}
      \subseteq {View(nodes, text)}

\* a pattern inserted after a longer pattern it is a strict prefix of, both
\* reported by the scan
C5_Witness ==
  /\ Constructed
  /\ \E i, j \in DOMAIN words :
       /\ i < j
       /\ Len(words[j]) < Len(words[i])
       /\ words[j] = SubSeq(words[i], 1, Len(words[j]))
       /\ {words[i], words[j]} \subseteq {m.pattern : m \in Range(findPatterns(nodes, text))}

\* ---- the scanner
RECURSIVE ChainFrom(_, _)
\* the nodes on the output-link chain of n, nearest first
ChainFrom(ns, n) ==
  IF ns[n].outputLink = Null THEN << >>
  ELSE <<ns[n].outputLink>> \o ChainFrom(ns, ns[n].outputLink)

\* the matches of `out` that end at text index e, in the order reported
EndingAt(out, e) == LET Here(m) == m.endIndex = e IN SelectSeq(out, Here)

\* the strings of the nodes a scanner standing at n is to report: n itself
\* when it is a word, then its output-link chain in chain order
DueAt(ns, n) ==
  LET due == (IF ns[n].isWord THEN <<n>> ELSE << >>) \o ChainFrom(ns, n)
  IN [k \in DOMAIN due |-> Path(ns, due[k])]

\* C6: a scan reports in non-decreasing endIndex order; the matches that
\* share an endIndex come in strictly decreasing pattern length, and they
\* are the current node's pattern first (if it is a word), then the patterns
\* of its output-link chain in chain order.
C6_EmissionOrder ==
  \A s \in DOMAIN scan :
    LET out == scan[s].out
        last == EndingAt(out, scan[s].i - 1)
    IN /\ \A k \in 1..(Len(out) - 1) :
            /\ out[k].endIndex <= out[k + 1].endIndex
            /\ out[k].endIndex = out[k + 1].endIndex =>
                 Len(out[k + 1].pattern) < Len(out[k].pattern)
       /\ (pc = "ready" /\ last # << >>) =>
            [k \in DOMAIN last |-> last[k].pattern] = DueAt(nodes, scan[s].node)

\* three matches that end at one text index: the current node's pattern
\* and two patterns from its output-link chain
C6_Witness ==
  /\ scan[1].state \in {"scan", "done"}
  /\ nodes[scan[1].node].isWord
  /\ Len(ChainFrom(nodes, scan[1].node)) = 2
  /\ Len(EndingAt(scan[1].out, scan[1].i - 1)) = 3

\* C7: whatever the order in which the linking pass visited the children of
\* each node, the constructed automaton has the failure and output links of
\* the pass run in one fixed order, and a finished scan reports the match
\* sequence of that automaton.
C7_SiblingOrderIrrelevant ==
  /\ Constructed => nodes = Construct(words)
  /\ \A s \in DOMAIN scan :
       (pc = "ready" /\ scan[s].state = "done") =>
         scan[s].out = findPatterns(Construct(words), text)

\* a finished scan with matches, on an automaton whose root has two
\* children that both have children with a failure link off the root
C7_Witness ==
  /\ scan[1].state = "done"
  /\ Len(scan[1].out) >= 2
  /\ Cardinality(ChildNodes(nodes, Root)) = 2
  /\ \A n \in ChildNodes(nodes, Root) :
       \E m \in ChildNodes(nodes, n) : nodes[m].failureLink # Root

\* C8: under every interleaving of the scanners' steps, a scanner that has
\* consumed i symbols stands on the node and has reported the matches of a
\* scan run alone on the constructed automaton over the first i symbols.
C8_ConcurrentScannersIndependent ==
  \A s \in DOMAIN scan :
    scan[s].state \in {"scan", "done"} =>
      [node |-> scan[s].node, i |-> scan[s].i, out |-> scan[s].out]
        = ScanFrom(Construct(words), ScanEntry, text, scan[s].i).st

\* two scanners under way at different text positions, both with matches
\* reported, the one behind having seen the other report
C8_Witness ==
  /\ Cardinality(DOMAIN scan) >= 2
  /\ scan[1].state = "scan"
  /\ scan[2].state = "scan"
  /\ scan[1].i >= 1
  /\ scan[1].i < scan[2].i
  /\ scan[1].out # << >>
  /\ Len(scan[1].out) < Len(scan[2].out)

\* C9: no step of a scan changes the automaton: no node is added and no
\* field of a node changes; every scan starts at the root, and two finished
\* scans of the text have reported the same match sequence.
C9_ScanLeavesAutomatonUnchanged ==
  [][pc = "ready" =>
       /\ nodes' = nodes
       /\ \A s \in DOMAIN scan :
            (scan[s].state = "idle" /\ scan'[s].state # "idle") =>
              (scan'[s].node = Root /\ scan'[s].i = 0)
       /\ \A s, r \in DOMAIN scan :
            (scan'[s].state = "done" /\ scan'[r].state = "done") =>
              scan'[s].out = scan'[r].out]_vars

\* a second scan is entered at the root after a first scan has finished
\* that reported matches and met a symbol the root has no child for
C9_Witness ==
  /\ Cardinality(DOMAIN scan) >= 2
  /\ scan[1].state = "done"
  /\ Len(scan[1].out) >= 2
  /\ \E j \in DOMAIN text : ~Contains(nodes, Root, text[j])
  /\ scan[2].state = "scan"
  /\ scan[2].i = 0
  /\ scan[2].node = Root

\* C10: no scan ends in an error; a scanner always stands on a node of the
\* automaton, and the failure-link fallback for the next symbol ends on a
\* node that has the symbol as a child, or on the root.
C10_ScanNeverFails ==
  \A s \in DOMAIN scan :
    /\ scan[s].state # "error"
    /\ scan[s].state \in {"scan", "done"} => scan[s].node \in DOMAIN nodes
    /\ scan[s].state = "scan" =>
         LET c == text[scan[s].i + 1]
             n == FollowFailure(nodes, scan[s].node, c)
         IN Contains(nodes, n, c) \/ n = Root

\* a scanner two nodes deep about to consume a symbol that is in no
\* pattern of the dictionary
C10_Witness ==
  /\ NonEmptyPatterns
  /\ scan[1].state = "scan"
  /\ nodes[scan[1].node].parent \notin {Null, Root}
  /\ \A k \in DOMAIN words : \A j \in DOMAIN words[k] :
       words[k][j] # text[scan[1].i + 1]

\* c is the first symbol of no pattern
StartsNoPattern(c) == \A k \in DOMAIN words : words[k] = << >> \/ words[k][1] # c

\* C11: a scanner at the root whose next symbol starts no pattern stays at
\* the root, reports nothing, moves on by exactly one symbol without an
\* error, and takes no failure-link step.
C11_RootSelfLoop ==
  [][\A s \in DOMAIN scan :
       (/\ pc = "ready"
        /\ scan[s].state = "scan"
        /\ scan[s].node = Root
        /\ StartsNoPattern(text[scan[s].i + 1])
        /\ scan'[s] # scan[s]) =>
         /\ scan'[s].node = Root
         /\ scan'[s].out = scan[s].out
         /\ scan'[s].i = scan[s].i + 1
         /\ scan'[s].state \in {"scan", "done"}
         /\ FailureSteps(nodes, Root, text[scan[s].i + 1]) = 0]_vars

\* a scanner that has consumed two symbols that start no pattern of a
\* dictionary that is not empty, and stands at the root
C11_Witness ==
  /\ pc = "ready"
  /\ ChildNodes(nodes, Root) # {}
  /\ scan[1].state \in {"scan", "done"}
  /\ scan[1].i = 2
  /\ StartsNoPattern(text[1])
  /\ StartsNoPattern(text[2])
  /\ scan[1].node = Root

\* C12: a scan of the empty text reports no match and ends at the root.
C12_EmptyText ==
  \A s \in DOMAIN scan :
    (text = << >> /\ scan[s].state # "idle") =>
      /\ scan[s].state = "done"
      /\ scan[s].out = << >>
      /\ scan[s].node = Root

\* the scan of the empty text has returned, the dictionary holding words
C12_Witness ==
  /\ text = << >>
  /\ scan[1].state = "done"
  /\ \E n \in DOMAIN nodes : nodes[n].isWord /\ nodes[n].parent # Null

\* ---- teardown
\* C13: during teardown no node is freed while a node not yet freed holds
\* a parent, failureLink or outputLink reference to it.
C13_NoFreeWhileReferenced ==
  \A f \in freed : \A n \in (DOMAIN nodes) \ freed :
    /\ nodes[n].parent # f
    /\ nodes[n].failureLink # f
    /\ nodes[n].outputLink # f

\* ---- the links against the dictionary
\* the strings that are a path from the root of the trie: the prefixes of
\* the patterns
TriePaths ==
  {<< >>} \cup UNION {{SubSeq(words[k], 1, j) : j \in 0..Len(words[k])} : k \in DOMAIN words}

ProperSuffixes(s) == {SubSeq(s, j, Len(s)) : j \in 2..(Len(s) + 1)}

Longest(S) == CHOOSE x \in S : \A y \in S : Len(y) <= Len(x)

NonRoot == {n \in DOMAIN nodes : nodes[n].parent # Null}

\* C14: after construction the failure link of every non-root node n is the
\* node whose string is the longest proper suffix of n's string that is a
\* path of the trie (the root when that suffix is empty); every child of the
\* root has failureLink = root.
C14_FailureLinkLongestSuffix ==
  pc = "ready" =>
    \A n \in NonRoot :
      /\ nodes[n].failureLink # Null
      /\ Path(nodes, nodes[n].failureLink) =
           Longest(ProperSuffixes(Path(nodes, n)) \cap TriePaths)
      /\ (nodes[n].parent = Root => nodes[n].failureLink = Root)

\* a constructed automaton with a node whose failure link was found beyond
\* the first node of its parent's failure chain, and is not the root
C14_Witness ==
  /\ Constructed
  /\ \E n \in NonRoot :
       /\ nodes[n].parent # Root
       /\ ~Contains(nodes, nodes[nodes[n].parent].failureLink, nodes[n].parentChar)
       /\ nodes[n].failureLink # Root
       /\ \E m \in NonRoot : nodes[m].parent = Root /\ nodes[m].failureLink = Root

Suffixes(s) == {SubSeq(s, j, Len(s)) : j \in 1..(Len(s) + 1)}

\* the text a scanner has consumed so far
Consumed(s) == SubSeq(text, 1, scan[s].i)

\* C15: after each symbol the scanner consumes, its current node is the node
\* whose string is the longest suffix of the consumed text that is a path of
\* the trie (the root if no non-empty suffix is one).
C15_CurrentNodeLongestSuffix ==
  \A s \in DOMAIN scan :
    (pc = "ready" /\ scan[s].state # "idle") =>
      /\ scan[s].node \in DOMAIN nodes
      /\ Path(nodes, scan[s].node) = Longest(Suffixes(Consumed(s)) \cap TriePaths)

\* a scanner whose last symbol took it over two failure links to a node
\* that is not the root
C15_Witness ==
  /\ pc = "ready"
  /\ scan[1].state = "done"
  /\ scan[1].i = MaxTextLen
  /\ scan[1].node # Root
  /\ FailureSteps(nodes, ScanFrom(nodes, ScanEntry, text, MaxTextLen - 1).st.node,
                  text[MaxTextLen]) >= 2

\* the patterns of the dictionary that are proper suffixes of the string of n
SuffixPatterns(n) == ProperSuffixes(Path(nodes, n)) \cap Range(words)

\* the strings of the output-link chain of n, nearest first
ChainPaths(n) == [k \in DOMAIN ChainFrom(nodes, n) |-> Path(nodes, ChainFrom(nodes, n)[k])]

\* C16: after construction the output-link chain from n.outputLink visits
\* exactly the nodes whose strings are dictionary patterns and proper
\* suffixes of n's string, each once, in order of decreasing length.
C16_OutputChainExact ==
  pc = "ready" =>
    \A n \in DOMAIN nodes :
      /\ Range(ChainPaths(n)) = SuffixPatterns(n)
      /\ Len(ChainPaths(n)) = Cardinality(SuffixPatterns(n))
      /\ \A i, j \in DOMAIN ChainPaths(n) :
           i < j => Len(ChainPaths(n)[i]) > Len(ChainPaths(n)[j])

RECURSIVE FirstWord(_, _)
\* the first node with isWord on the failure chain that starts at f
FirstWord(ns, f) ==
  IF f = Null THEN Null
  ELSE IF ns[f].isWord THEN f
  ELSE FirstWord(ns, ns[f].failureLink)

\* C17: after construction n.outputLink is the first node with isWord on
\* the failure chain of n starting at n.failureLink, absent when the chain
\* has no word; when present its string is a proper suffix of n's string.
C17_OutputLinkNearestWord ==
  pc = "ready" =>
    \A n \in DOMAIN nodes :
      /\ nodes[n].outputLink = FirstWord(nodes, nodes[n].failureLink)
      /\ nodes[n].outputLink # Null =>
           Path(nodes, nodes[n].outputLink) \in ProperSuffixes(Path(nodes, n))

\* C18: after construction every non-root node n has outputLink =
\* failureLink when failureLink.isWord, and failureLink.outputLink
\* otherwise, the nodes whose failure link is the root included.
C18_OutputLinkRule ==
  pc = "ready" =>
    \A n \in NonRoot :
      /\ nodes[n].failureLink # Null
      /\ nodes[n].outputLink =
           IF nodes[nodes[n].failureLink].isWord THEN nodes[n].failureLink
           ELSE nodes[nodes[n].failureLink].outputLink

Depth(n) == Len(Path(nodes, n))

RECURSIVE ReachesRoot(_, _, _)
\* the failure chain from n arrives at the root within k steps
ReachesRoot(ns, n, k) ==
  IF n = Root THEN TRUE
  ELSE IF n = Null \/ k = 0 THEN FALSE
  ELSE ReachesRoot(ns, ns[n].failureLink, k - 1)

\* C19: after construction the failure link of every non-root node points
\* to a node of strictly smaller depth, and the failure chain of n reaches
\* the root in at most depth(n) steps.
C19_FailureLinkShallower ==
  pc = "ready" =>
    \A n \in NonRoot :
      /\ nodes[n].failureLink # Null
      /\ Depth(nodes[n].failureLink) < Depth(n)
      /\ ReachesRoot(nodes, n, Depth(n))

\* a constructed automaton with a node of the greatest depth whose failure
\* chain takes every one of its depth(n) steps
C19_Witness ==
  /\ Constructed
  /\ \E n \in NonRoot :
       /\ Depth(n) = MaxPatLen
       /\ Depth(nodes[n].failureLink) = MaxPatLen - 1
       /\ ~ReachesRoot(nodes, n, MaxPatLen - 1)

\* C20 as stated: after construction the failure link of the root is the
\* root itself.
C20_RootSelfLoop == pc = "ready" => nodes[Root].failureLink = Root

\* C20: after construction the failure link of the root is absent (null);
\* the root is the one node without a failure link.
C20_RootFailureLinkAbsent ==
  pc = "ready" =>
    /\ nodes[Root].failureLink = Null
    /\ \A n \in NonRoot : nodes[n].failureLink # Null

\* a constructed automaton with a child of the root, and a scan that has
\* ended at the root on a symbol the root has no child for
C20_Witness ==
  /\ pc = "ready"
  /\ \E n \in NonRoot : nodes[n].parent = Root /\ nodes[n].failureLink = Root
  /\ scan[1].state = "done"
  /\ scan[1].i = MaxTextLen
  /\ scan[1].node = Root
  /\ ~Contains(nodes, Root, text[MaxTextLen])
  /\ scan[1].out # << >>

\* ---- the order of the linking pass
RECURSIVE WalkNodes(_, _, _)
\* the nodes the while loop of connectFailureLink visits from f on c
WalkNodes(ns, f, c) ==
  IF f = Null THEN {}
  ELSE IF Contains(ns, f, c) THEN {f, ns[f].children[c]}
  ELSE {f} \cup WalkNodes(ns, ns[f].failureLink, c)

\* the nodes whose failureLink or outputLink connectFailureLink(node) reads
LinksRead(ns, node) ==
  IF ns[node].parent = Null \/ ns[node].parent = Root THEN {}
  ELSE {ns[node].parent}
         \cup WalkNodes(ns, ns[ns[node].parent].failureLink, ns[node].parentChar)

\* the links of node m are those of the automaton `final`
LinksFinal(final, m) ==
  /\ nodes[m].failureLink = final[m].failureLink
  /\ nodes[m].outputLink = final[m].outputLink

\* C21: when the linking pass is about to compute the links of a node of
\* depth d, the failure and output link of every node of depth smaller than
\* d already have their final values (those the constructor returns with),
\* and so has every node whose links the computation reads.
C21_LinksFinalBeforeRead ==
  (pc = "link" /\ q # << >>) =>
    LET final == Construct(words)
        d     == Depth(Head(q))
    IN /\ \A m \in DOMAIN nodes : Depth(m) < d => LinksFinal(final, m)
       /\ \A m \in LinksRead(nodes, Head(q)) : LinksFinal(final, m)

\* the pass is about to link a node of the greatest depth, and the
\* computation reads a node that has a non-root failure link and an output
\* link
C21_Witness ==
  /\ pc = "link"
  /\ q # << >>
  /\ Depth(Head(q)) = MaxPatLen
  /\ \E m \in LinksRead(nodes, Head(q)) :
       /\ nodes[m].failureLink \notin {Null, Root}
       /\ nodes[m].outputLink # Null

\* ---- the trie
\* the patterns inserted so far
Inserted == {words[k] : k \in 1..(wi - 1)}

\* the automaton is allocated: teardown has not begun
Alive == pc \in {"build", "link", "ready"}

\* C22: after any sequence of insertions a node has isWord exactly when
\* the string of its path from the root is an inserted pattern, and the
\* pattern stored on such a node is that string.
C22_IsWordIffInserted ==
  Alive =>
    \A n \in DOMAIN nodes :
      /\ nodes[n].isWord <=> Path(nodes, n) \in Inserted
      /\ nodes[n].isWord => nodes[n].pattern = Path(nodes, n)

\* MaxWords insertions have made an inner node a word and left another
\* node unmarked
C22_Witness ==
  /\ pc = "build"
  /\ wi = MaxWords + 1
  /\ \E n, m \in NonRoot :
       /\ nodes[n].isWord /\ DOMAIN nodes[n].children # {}
       /\ ~nodes[m].isWord

\* the prefixes of the patterns inserted so far
InsertedPaths ==
  {<< >>} \cup UNION {{SubSeq(w, 1, j) : j \in 0..Len(w)} : w \in Inserted}

RECURSIVE ReachesRootByParent(_, _, _)
\* the parent chain from n arrives at the root within k steps
ReachesRootByParent(ns, n, k) ==
  IF n = Root THEN TRUE
  ELSE IF n = Null \/ k = 0 THEN FALSE
  ELSE ReachesRootByParent(ns, ns[n].parent, k - 1)

\* the nodes that hold n as a child
Holders(n) == {p \in DOMAIN nodes : n \in ChildNodes(nodes, p)}

\* C23: after any sequence of insertions the children edges form a tree
\* with one root: the root has no parent, every other node n has exactly
\* one parent and parent.children[n.parentChar] = n, there is no cycle, and
\* there is exactly one node for each distinct prefix of the inserted
\* patterns.
C23_TrieIsTree ==
  Alive =>
    /\ nodes[Root].parent = Null
    /\ \A n \in (DOMAIN nodes) \ {Root} :
         /\ nodes[n].parent \in DOMAIN nodes
         /\ Contains(nodes, nodes[n].parent, nodes[n].parentChar)
         /\ nodes[nodes[n].parent].children[nodes[n].parentChar] = n
         /\ Holders(n) = {nodes[n].parent}
         /\ ReachesRootByParent(nodes, n, Len(nodes))
    /\ Holders(Root) = {}
    /\ {Path(nodes, n) : n \in DOMAIN nodes} = InsertedPaths
    /\ Len(nodes) = Cardinality(InsertedPaths)

\* MaxWords insertions, two of them different patterns that share their
\* first symbol, and a root with two children
C23_Witness ==
  /\ pc = "build"
  /\ wi = MaxWords + 1
  /\ Cardinality(DOMAIN nodes[Root].children) = 2
  /\ \E i, j \in DOMAIN words :
       /\ words[i] # words[j]
       /\ Len(words[i]) >= 2 /\ Len(words[j]) >= 2
       /\ words[i][1] = words[j][1]

\* ---- what the linking pass leaves alone
\* the fields of a node that insert writes
TrieFields(ns, n) ==
  [children |-> ns[n].children, parent |-> ns[n].parent,
   parentChar |-> ns[n].parentChar, isWord |-> ns[n].isWord,
   pattern |-> ns[n].pattern]

\* C24: a step of the linking pass creates and removes no node and changes
\* no children, parent, parentChar, isWord or pattern; and once insertion
\* has set isWord and pattern on a node no later step changes them.
C24_LinkPassFrame ==
  [][/\ pc = "link" =>
          /\ Len(nodes') = Len(nodes)
          /\ \A n \in DOMAIN nodes : TrieFields(nodes', n) = TrieFields(nodes, n)
     /\ \A n \in DOMAIN nodes :
          nodes[n].isWord =>
            /\ n \in DOMAIN nodes'
            /\ nodes'[n].isWord
            /\ nodes'[n].pattern = nodes[n].pattern]_vars

\* the pass has ended and has given some node a failure link other than
\* the root and an output link, and some node of the trie is no word
C24_Witness ==
  /\ Constructed
  /\ \E n, m \in NonRoot :
       /\ nodes[n].failureLink # Root
       /\ nodes[n].outputLink # Null
       /\ ~nodes[m].isWord
       /\ nodes[m].failureLink # Root

\* ---- termination
\* the pending nodes of the linking pass are distinct and not yet linked
QueueFresh ==
  /\ \A i, j \in DOMAIN q : q[i] = q[j] => i = j
  /\ \A i \in DOMAIN q : nodes[q[i]].failureLink = Null
  /\ Root \in Range(q) => q = <<Root>>

\* the walks of the next iteration of scanner s are bounded: the failure
\* walk by the depth of the node it starts at, ending at a node with a
\* child for the symbol or at the root, the output walk by the depth of
\* the node it starts at
WalksBounded(s) ==
  LET n == scan[s].node
      c == text[scan[s].i + 1]
      e == FollowFailure(nodes, n, c)
      a == Advance(nodes, n, c).node
  IN /\ FailureSteps(nodes, n, c) <= Depth(n)
     /\ Contains(nodes, e, c) \/ e = Root
     /\ Len(ChainFrom(nodes, a)) <= Depth(a)

\* C25: construction and scanning terminate: the linking pass takes each
\* node once and ends, the failure-link walk of a scanner step ends at the
\* root at the latest, the output-link walk ends at an absent link, and a
\* scan that has begun finishes.
C25_Terminates ==
  /\ [](pc = "link" => QueueFresh)
  /\ [](pc = "ready" /\ scan[1].state = "scan" => WalksBounded(1))
  /\ <>(pc = "ready")
  /\ (scan[1].state = "scan") ~> (scan[1].state = "done" /\ scan[1].i = Len(text))

\* a scan of a full-length text has finished on an automaton with a node
\* of the greatest depth, the last symbol taken over a failure link
C25_Witness ==
  /\ pc = "ready"
  /\ scan[1].state = "done"
  /\ scan[1].i = MaxTextLen
  /\ Len(nodes) > MaxPatLen
  /\ FailureSteps(nodes, ScanFrom(nodes, ScanEntry, text, MaxTextLen - 1).st.node,
                  text[MaxTextLen]) >= 1
  /\ scan[1].out # << >>

\* ---- the work of a scan
\* what one iteration of findPatterns at `node` on symbol c does: failure
\* links followed, trie edges taken, matches of the node itself, output
\* links followed
IterationWork(ns, node, c) ==
  LET a == Advance(ns, node, c)
  IN [fail  |-> FailureSteps(ns, node, c),
      adv   |-> IF a.skip THEN 0 ELSE 1,
      own   |-> IF ~a.skip /\ ns[a.node].isWord THEN 1 ELSE 0,
      chain |-> IF a.skip THEN 0 ELSE Len(ChainFrom(ns, a.node)),
      node  |-> a.node]

RECURSIVE ScanWork(_, _, _, _, _)
\* the work of the iterations k+1..n of a scan of t that stands at `node`
ScanWork(ns, node, t, k, n) ==
  IF k >= n THEN [fail |-> 0, adv |-> 0, own |-> 0, chain |-> 0]
  ELSE LET w == IterationWork(ns, node, t[k + 1])
           r == ScanWork(ns, w.node, t, k + 1, n)
       IN [fail |-> w.fail + r.fail, adv |-> w.adv + r.adv,
           own |-> w.own + r.own, chain |-> w.chain + r.chain]

\* C26: over a scan the failure-link steps taken so far are at most the
\* trie-edge advances so far, these are at most the symbols consumed (so
\* at most |text|), and the output-link steps equal the matches emitted
\* through output links (all matches but those of the current nodes
\* themselves).
C26_ScanWorkBounded ==
  \A s \in DOMAIN scan :
    (pc = "ready" /\ scan[s].state \in {"scan", "done"}) =>
      LET w == ScanWork(nodes, Root, text, 0, scan[s].i)
      IN /\ w.fail <= w.adv
         /\ w.adv <= scan[s].i
         /\ scan[s].i <= Len(text)
         /\ w.chain = Len(scan[s].out) - w.own

\* a finished scan of a full-length text that has followed a failure link
\* and an output link
C26_Witness ==
  /\ pc = "ready"
  /\ scan[1].state = "done"
  /\ scan[1].i = MaxTextLen
  /\ ScanWork(nodes, Root, text, 0, MaxTextLen).fail >= 2
  /\ ScanWork(nodes, Root, text, 0, MaxTextLen).chain >= 1

\* ---- teardown
\* no node was popped after it was deleted; the pending nodes are distinct
\* and allocated; a node that is neither deleted nor pending hangs under a
\* node that is not deleted; when clear returns every node is deleted
TeardownSafe ==
  /\ pc # "crash"
  /\ pc \in {"clear", "gone"} =>
       /\ \A i, j \in DOMAIN cq : cq[i] = cq[j] => i = j
       /\ Range(cq) \cap freed = {}
       /\ freed \subseteq DOMAIN nodes
       /\ \A n \in (DOMAIN nodes) \ (freed \cup Range(cq)) :
            \E p \in (DOMAIN nodes) \ freed : n \in ChildNodes(nodes, p)
  /\ pc = "gone" => freed = DOMAIN nodes

\* C27: destroying the automaton frees every node exactly once and reads
\* no field of a freed node: no node is popped or deleted twice, none is
\* left allocated when clear returns, and the children of a node are in
\* the queue when the node is deleted.
C27_TeardownFreesEachOnce ==
  /\ []TeardownSafe
  /\ [][\A n \in freed' \ freed :
          /\ freed' = freed \cup {n}
          /\ n = Head(cq)
          /\ ChildNodes(nodes, n) \subseteq Range(cq')]_vars

\* clear has returned from a trie of more than MaxPatLen + 1 nodes with
\* two branches at the root
C27_Witness ==
  /\ pc = "gone"
  /\ Len(nodes) > MaxPatLen + 1
  /\ Cardinality(DOMAIN nodes[Root].children) = 2
  /\ freed = DOMAIN nodes

\* ---- no occurrence twice
\* C28: for a dictionary of non-empty patterns a scan reports no
\* (pattern, endIndex) pair twice, and a finished scan has reported as
\* many matches as there are distinct occurrences of patterns in the text.
C28_NoDuplicateReport ==
  \A s \in DOMAIN scan :
    NonEmptyPatterns =>
      /\ \A i, j \in DOMAIN scan[s].out : scan[s].out[i] = scan[s].out[j] => i = j
      /\ scan[s].state = "done" =>
           Len(scan[s].out) = Cardinality(Naive(words, text))

\* a finished scan over a dictionary that holds a pattern twice, with two
\* matches at one endIndex and one pattern matched at two places
C28_Witness ==
  /\ NonEmptyPatterns
  /\ scan[1].state = "done"
  /\ \E i, j \in DOMAIN words : i # j /\ words[i] = words[j]
  /\ \E i, j \in DOMAIN scan[1].out :
       /\ i # j
       /\ scan[1].out[i].endIndex = scan[1].out[j].endIndex
  /\ \E i, j \in DOMAIN scan[1].out :
       /\ scan[1].out[i].pattern = scan[1].out[j].pattern
       /\ scan[1].out[i].endIndex # scan[1].out[j].endIndex

\* ---- the root as the one node without failure link
\* C29: after the constructor a node has a null failureLink exactly when
\* it is the root, and whenever the failure-link walk of a scanner step
\* ends at a node without a child for the symbol, that node is the root.
C29_NullFailureLinkIffRoot ==
  pc = "ready" =>
    /\ \A n \in DOMAIN nodes : nodes[n].failureLink = Null <=> n = Root
    /\ \A s \in DOMAIN scan :
         scan[s].state = "scan" =>
           LET c == text[scan[s].i + 1]
               e == FollowFailure(nodes, scan[s].node, c)
           IN ~Contains(nodes, e, c) => e = Root

\* a scanner that stands below the root on a symbol for which its walk
\* runs over two failure links to the root and finds no child there
C29_Witness ==
  /\ pc = "ready"
  /\ scan[1].state = "scan"
  /\ scan[1].node # Root
  /\ FailureSteps(nodes, scan[1].node, text[scan[1].i + 1]) >= 2
  /\ FollowFailure(nodes, scan[1].node, text[scan[1].i + 1]) = Root
  /\ ~Contains(nodes, Root, text[scan[1].i + 1])

\* ---- the linking pass run again
\* C30: a second run of fillFailureLinks on the unchanged trie leaves the
\* failureLink and outputLink of every node as the first run left them,
\* at its end and after each of its passes.
C30_RelinkIdempotent ==
  pc \in {"relink", "relinked"} =>
    LET first == Construct(words)
    IN /\ Len(nodes) = Len(first)
       /\ \A n \in DOMAIN nodes : LinksFinal(first, n)

\* the second run has ended on an automaton with a failure link other
\* than the root, an output link, and a node whose walk found no suffix
C30_Witness ==
  /\ pc = "relinked"
  /\ \E n, m \in NonRoot :
       /\ nodes[n].failureLink # Root
       /\ nodes[n].outputLink # Null
       /\ nodes[m].parent # Root
       /\ nodes[m].failureLink = Root

====
